---- MODULE Spec2Model ----
(***************************************************************************)
(* A model of tools/nep_related/deep2nep.py: the conversion of a tree of   *)
(* deepmd system directories into ./nep/train.in.                          *)
(*                                                                         *)
(* Numbers are integers; a float of the program is an integer-valued float *)
(* and is written by str() as its digits followed by ".0".  A .npy array   *)
(* is the flat sequence of its elements; an optional file is None or       *)
(* Some(content).  A text file is the sequence of its lines, each line the *)
(* sequence of its characters without the terminating newline (every line  *)
(* the program writes ends with one).                                      *)
(***************************************************************************)
EXTENDS Integers, Sequences, FiniteSets, TLC

\* Bounds of the explored input trees.
MaxEntries == 2
MaxSets == 2
MaxFrames == 3
MaxAtoms == 2
MaxType == 1

VARIABLES fs, nep, pc, err, i, sys, data_multi, data, mi, j, ifr, di

vars == <<fs, nep, pc, err, i, sys, data_multi, data, mi, j, ifr, di>>

-----------------------------------------------------------------------------
\* Generic helpers.

None == <<>>
Some(x) == <<x>>

\* os.path.isfile / os.path.isdir on an optional file.
IsFile(o) == o # <<>>

RECURSIVE SumSeq(_)
SumSeq(s) == IF s = <<>> THEN 0 ELSE Head(s) + SumSeq(Tail(s))

RECURSIVE Flatten(_)
Flatten(ss) == IF ss = <<>> THEN <<>> ELSE Head(ss) \o Flatten(Tail(ss))

RECURSIVE MaxOf(_)
MaxOf(s) == IF Len(s) = 1 THEN s[1]
            ELSE LET m == MaxOf(Tail(s)) IN IF s[1] > m THEN s[1] ELSE m

\* The rows of width w of a flat array whose size is a multiple of w.
Rows(a, w) == [r \in 1..(Len(a) \div w) |-> SubSeq(a, (r - 1) * w + 1, r * w)]

\* np.reshape(a, [.., -1, ..]) with `known` the product of the given
\* dimensions: numpy refuses when known is 0 or does not divide the size.
CanInfer(size, known) == known # 0 /\ size % known = 0

\* np.reshape(a, [nframes, -1, 3]): frames of rows of three.
ReshapeFN3(a, nframes) == Rows(Rows(a, 3), Len(a) \div (3 * nframes))

\* np.reshape(a, [nframes, 3, 3]).
ReshapeF33(a) == Rows(Rows(a, 3), 3)

-----------------------------------------------------------------------------
\* Text rendering.

Digits == <<"0", "1", "2", "3", "4", "5", "6", "7", "8", "9">>

RECURSIVE NatStr(_)
NatStr(n) == IF n < 10 THEN <<Digits[n + 1]>>
             ELSE NatStr(n \div 10) \o <<Digits[(n % 10) + 1]>>

\* str(int(x))
IntStr(n) == IF n < 0 THEN <<"-">> \o NatStr(-n) ELSE NatStr(n)

\* str(x) of an integer-valued numpy float
FloatStr(x) == IntStr(x) \o <<".", "0">>

\* ' '.join(map(str, v)) for a vector of floats
RECURSIVE JoinFloats(_)
JoinFloats(v) == IF v = <<>> THEN <<>>
                 ELSE IF Len(v) = 1 THEN FloatStr(v[1])
                 ELSE FloatStr(v[1]) \o <<" ">> \o JoinFloats(Tail(v))

-----------------------------------------------------------------------------
\* The input trees.  An entry of the parent directory is a plain file or a
\* system directory; a system directory holds type.raw, type_map.raw, nopbc
\* and its set.* directories in the order sorted(glob(..)) gives them.

FrameId(p, k, f) == ((p - 1) * (MaxSets + 1) + (k - 1)) * (MaxFrames + 1) + f

BoxOf(fid) == <<fid, 1, 2, 3, 4, 5, 6, 7, 8>>
VirialOf(fid) == <<fid, 1, 2, 3, fid + 1, 4, 5, 6, fid + 2>>
EnergyOf(fid) == 0 - fid
CoordOf(fid, a) == <<fid, a, 0>>
ForceOf(fid, a) == <<0 - a, fid, 1>>

\* The arrays of set k of the system at position p: n frames of natoms atoms.
BoxArray(p, k, n) == Flatten([f \in 1..n |-> BoxOf(FrameId(p, k, f))])
VirialArray(p, k, n) == Flatten([f \in 1..n |-> VirialOf(FrameId(p, k, f))])
EnergyArray(p, k, n) == [f \in 1..n |-> EnergyOf(FrameId(p, k, f))]
CoordArray(p, k, n, natoms) ==
    Flatten([f \in 1..n |-> Flatten([a \in 1..natoms |-> CoordOf(FrameId(p, k, f), a)])])
ForceArray(p, k, n, natoms) ==
    Flatten([f \in 1..n |-> Flatten([a \in 1..natoms |-> ForceOf(FrameId(p, k, f), a)])])

MkSet(p, k, n, natoms, e, f, v) ==
    [box    |-> Some(BoxArray(p, k, n)),
     coord  |-> Some(CoordArray(p, k, n, natoms)),
     energy |-> IF e THEN Some(EnergyArray(p, k, n)) ELSE None,
     force  |-> IF f THEN Some(ForceArray(p, k, n, natoms)) ELSE None,
     virial |-> IF v THEN Some(VirialArray(p, k, n)) ELSE None]

EntryName(p) == "sys" \o ToString(p)

MkSystem(p, types, type_map, sets, nopbc) ==
    [isdir |-> TRUE, name |-> EntryName(p), type_raw |-> types, type_map |-> type_map,
     sets |-> sets, nopbc |-> nopbc]

PlainFile(p) ==
    [isdir |-> FALSE, name |-> EntryName(p), type_raw |-> None, type_map |-> None,
     sets |-> <<>>, nopbc |-> FALSE]

DefaultTypes(p) == IF p % 2 = 1 THEN <<1, 0>> ELSE <<0>>

ElementName(t) == "El" \o ToString(t)

\* Trees of several entries: plain files and systems of n frames in their
\* last set, with or without virial data, with or without a one-frame set
\* before it.
FamilyFrames == {1, MaxFrames - 1, MaxFrames}

FamilyParams ==
    [kind : {"dir"}, n : FamilyFrames, v : BOOLEAN, extra : BOOLEAN]
    \cup {[kind |-> "file", n |-> 1, v |-> FALSE, extra |-> FALSE]}

FamilyEntry(p, c) ==
    IF c.kind = "file" THEN PlainFile(p)
    ELSE LET natoms == Len(DefaultTypes(p))
             sets == IF c.extra
                     THEN <<MkSet(p, 1, 1, natoms, TRUE, TRUE, c.v),
                            MkSet(p, 2, c.n, natoms, TRUE, TRUE, c.v)>>
                     ELSE <<MkSet(p, 1, c.n, natoms, TRUE, TRUE, c.v)>>
         IN  MkSystem(p, Some(DefaultTypes(p)), None, sets, FALSE)

MultiTrees ==
    UNION {{[p \in 1..L |-> FamilyEntry(p, c[p])] : c \in [1..L -> FamilyParams]}
           : L \in 0..MaxEntries}

\* Trees of one system whose sets differ in frame count and in the optional
\* files they hold.
SetParams == [n : {1, MaxFrames}, has : {"efv", "ef", "fv", "ev"}]

ParamSet(p, k, c) ==
    MkSet(p, k, c.n, Len(DefaultTypes(p)),
          c.has # "fv", c.has # "ev", c.has # "ef")

SetTrees ==
    UNION {{<<MkSystem(1, Some(DefaultTypes(1)), None,
                       [k \in 1..L |-> ParamSet(1, k, c[k])], FALSE)>>
            : c \in [1..L -> SetParams]}
           : L \in 0..MaxSets}

\* Trees of one system of one frame whose type.raw and type_map.raw vary.
TypeLists == UNION {[1..L -> 0..MaxType] : L \in 0..MaxAtoms}

TypeTrees ==
    {<<MkSystem(1, t, m,
                <<MkSet(1, 1, 1, IF t = None \/ t = Some(<<>>) THEN 1 ELSE Len(t[1]),
                        TRUE, TRUE, TRUE)>>, b)>>
     : t \in {None} \cup {Some(l) : l \in TypeLists},
       m \in {None} \cup {Some([x \in 1..L |-> ElementName(x)]) : L \in 0..(MaxType + 1)},
       b \in BOOLEAN}

\* Trees with one damaged set.
Defects ==
    {"nobox", "badbox", "emptybox", "nocoord", "badcoord", "badenergy",
     "emptyenergy", "emptyforce", "badforce", "emptyvirial", "badvirial",
     "fewcoord", "fewforce", "morecoord"}

Chop(o) == Some(SubSeq(o[1], 1, Len(o[1]) - 1))

Damaged(p, k, d) ==
    LET g == MkSet(p, k, 2, 2, TRUE, TRUE, TRUE)
    IN  CASE d = "nobox"       -> [g EXCEPT !.box = None]
          [] d = "badbox"      -> [g EXCEPT !.box = Chop(g.box)]
          [] d = "emptybox"    -> [g EXCEPT !.box = Some(<<>>)]
          [] d = "nocoord"     -> [g EXCEPT !.coord = None]
          [] d = "badcoord"    -> [g EXCEPT !.coord = Chop(g.coord)]
          [] d = "badenergy"   -> [g EXCEPT !.energy = Chop(g.energy)]
          [] d = "emptyenergy" -> [g EXCEPT !.energy = Some(<<>>)]
          [] d = "emptyforce"  -> [g EXCEPT !.force = Some(<<>>)]
          [] d = "badforce"    -> [g EXCEPT !.force = Chop(g.force)]
          [] d = "emptyvirial" -> [g EXCEPT !.virial = Some(<<>>)]
          [] d = "badvirial"   -> [g EXCEPT !.virial = Chop(g.virial)]
          [] d = "fewcoord"    -> [g EXCEPT !.coord = Some(CoordArray(p, k, 2, 1))]
          [] d = "fewforce"    -> [g EXCEPT !.force = Some(ForceArray(p, k, 2, 1))]
          [] d = "morecoord"   -> [g EXCEPT !.coord = Some(CoordArray(p, k, 2, 3))]

GoodSystem(p, sets) == MkSystem(p, Some(<<1, 0>>), None, sets, FALSE)

DefectTrees ==
    UNION {{<<GoodSystem(1, <<Damaged(1, 1, d)>>)>>,
            <<GoodSystem(1, <<MkSet(1, 1, 2, 2, TRUE, TRUE, TRUE), Damaged(1, 2, d)>>)>>,
            <<GoodSystem(1, <<Damaged(1, 1, d), MkSet(1, 2, 2, 2, TRUE, TRUE, TRUE)>>)>>,
            <<GoodSystem(1, <<MkSet(1, 1, 2, 2, TRUE, TRUE, TRUE)>>),
              GoodSystem(2, <<Damaged(2, 1, d)>>)>>}
           : d \in Defects}

\* Trees without a system directory.
PlainTrees == {<<>>, <<PlainFile(1)>>}

SingleTrees == PlainTrees \cup SetTrees \cup TypeTrees \cup DefectTrees

\* ./nep before the run: absent, or left by an earlier run.
OldFile == <<<<"o", "l", "d">>>>

NoNep == [exists |-> FALSE, file |-> None]

NepStates ==
    {NoNep,
     [exists |-> TRUE, file |-> None],
     [exists |-> TRUE, file |-> Some(OldFile)]}

\* The file system before the run.
Inputs ==
    [entries : SingleTrees, nep : NepStates]
    \cup [entries : MultiTrees, nep : {NoNep}]

-----------------------------------------------------------------------------
\* The functions of the program.

\* convervirial(invirial): invirial is a 3x3 matrix, rows first.
convervirial(invirial) ==
    LET vxx == invirial[1][1]
        vxy == invirial[1][2]
        vzx == invirial[1][3]
        vyy == invirial[2][2]
        vyz == invirial[2][3]
        vzz == invirial[3][3]
    IN  <<vxx, vyy, vzz, vxy, vyz, vzx>>

\* vec2volume(cells): np.dot(va, np.cross(vb, vc)) of the flattened cell.
vec2volume(cells) ==
    LET va == SubSeq(cells, 1, 3)
        vb == SubSeq(cells, 4, 6)
        vc == SubSeq(cells, 7, 9)
        cx == vb[2] * vc[3] - vb[3] * vc[2]
        cy == vb[3] * vc[1] - vb[1] * vc[3]
        cz == vb[1] * vc[2] - vb[2] * vc[1]
    IN  va[1] * cx + va[2] * cy + va[3] * cz

\* A mutant of NTypes: the count of types is taken to be the largest index.
NTypesNoPlusOne(atom_types) == MaxOf(atom_types)

\* load_type: ntypes = np.max(atom_types) + 1
NTypes(atom_types) == MaxOf(atom_types) + 1

\* load_type: the list atom_numbs, one count per type index below ntypes.
AtomNumbs(atom_types) ==
    [x \in 1..NTypes(atom_types) |->
        Cardinality({a \in 1..Len(atom_types) : atom_types[a] = x - 1})]

\* load_type: the names chosen: type_map.raw, else the argument, else made up.
MyTypeMap(folder, type_map) ==
    IF IsFile(folder.type_map) THEN folder.type_map[1]
    ELSE IF type_map # None THEN type_map[1]
    ELSE [x \in 1..NTypes(folder.type_raw[1]) |-> "Type_" \o ToString(x - 1)]

\* The exception load_type ends with, or "none".
LoadTypeError(folder, type_map) ==
    IF ~IsFile(folder.type_raw) THEN "OSError"
    ELSE IF folder.type_raw[1] = <<>> THEN "ValueError"
    ELSE IF ~(Len(MyTypeMap(folder, type_map)) >= Len(AtomNumbs(folder.type_raw[1])))
         THEN "AssertionError"
    ELSE "none"

load_type(folder, type_map) ==
    LET atom_types == folder.type_raw[1]
        atom_numbs == AtomNumbs(atom_types)
    IN  [atom_types |-> atom_types,
         atom_numbs |-> atom_numbs,
         atom_names |-> SubSeq(MyTypeMap(folder, type_map), 1, Len(atom_numbs))]

\* The exception load_set ends with, or "none": box.npy and coord.npy are
\* loaded unconditionally, the others through cond_load_data.
LoadSetError(folder) ==
    IF ~IsFile(folder.box) \/ ~IsFile(folder.coord) THEN "FileNotFoundError"
    ELSE "none"

load_set(folder) ==
    [cells |-> folder.box[1], coords |-> folder.coord[1],
     eners |-> folder.energy, forces |-> folder.force, virs |-> folder.virial]

\* One pass of the loop over the sets in to_system_data, on what load_set
\* returned: the frame count of the set and the reshapes that can fail.
SetFrames(ls) == Len(ls.cells) \div 9

ReshapeError(ls) ==
    LET nframes == SetFrames(ls)
    IN  IF ~CanInfer(Len(ls.cells), 9) THEN "ValueError"
        ELSE IF ~CanInfer(Len(ls.coords), nframes * 3) THEN "ValueError"
        ELSE IF ls.eners # None /\ Len(ls.eners[1]) # nframes THEN "ValueError"
        ELSE IF ls.forces # None /\ Len(ls.forces[1]) > 0
                /\ ~CanInfer(Len(ls.forces[1]), nframes * 3) THEN "ValueError"
        ELSE IF ls.virs # None /\ Len(ls.virs[1]) > 0
                /\ Len(ls.virs[1]) # nframes * 9 THEN "ValueError"
        ELSE "none"

AppendSet(s, ls) ==
    LET nframes == SetFrames(ls)
    IN  [s EXCEPT
          !.k = @ + 1,
          !.nframes = Some(nframes),
          !.all_cells = Append(@, ReshapeF33(ls.cells)),
          !.all_coords = Append(@, ReshapeFN3(ls.coords, nframes)),
          !.all_eners = IF ls.eners # None /\ Len(ls.eners[1]) > 0
                        THEN Append(@, ls.eners[1]) ELSE @,
          !.all_forces = IF ls.forces # None /\ Len(ls.forces[1]) > 0
                         THEN Append(@, ReshapeFN3(ls.forces[1], nframes)) ELSE @,
          !.all_virs = IF ls.virs # None /\ Len(ls.virs[1]) > 0
                       THEN Append(@, ReshapeF33(ls.virs[1])) ELSE @]

\* np.concatenate(arrays, axis = 0) of arrays of frames of rows: the frames
\* must agree in the number of rows.
SameShape(arrays) ==
    \A a, b \in 1..Len(arrays) : Len(arrays[a][1]) = Len(arrays[b][1])

\* to_system_data after the loop: data['frames'] = nframes
SystemFrames(s) == s.nframes[1]

SystemError(s) ==
    IF s.nframes = None THEN "UnboundLocalError"
    ELSE IF ~SameShape(s.all_coords) THEN "ValueError"
    ELSE IF ~SameShape(s.all_forces) THEN "ValueError"
    ELSE "none"

\* read_multi_deepmd: the has_virial array of a system.
HasVirial(virials, frames) ==
    IF virials # None /\ Len(virials[1]) = frames
    THEN [x \in 1..frames |-> TRUE]
    ELSE [x \in 1..frames |-> FALSE]

SystemData(s, folder) ==
    LET frames == SystemFrames(s)
        virials == IF Len(s.all_virs) > 0 THEN Some(Flatten(s.all_virs)) ELSE None
    IN  [atom_types |-> s.data.atom_types,
         atom_numbs |-> s.data.atom_numbs,
         atom_names |-> s.data.atom_names,
         orig       |-> <<0, 0, 0>>,
         docname    |-> folder.name,
         frames     |-> frames,
         cells      |-> Flatten(s.all_cells),
         coords     |-> Flatten(s.all_coords),
         energies   |-> IF Len(s.all_eners) > 0 THEN Some(Flatten(s.all_eners)) ELSE None,
         forces     |-> IF Len(s.all_forces) > 0 THEN Some(Flatten(s.all_forces)) ELSE None,
         virials    |-> virials,
         nopbc      |-> folder.nopbc,
         has_virial |-> HasVirial(virials, frames)]

\* The keys of data_multi in the order the dict yields them.
RECURSIVE KeySeq(_)
KeySeq(S) ==
    IF S = {} THEN <<>>
    ELSE LET m == CHOOSE x \in S : \A y \in S : x <= y
         IN  <<m>> \o KeySeq(S \ {m})

\* A mutant of NpSum: the sum is an integer whatever the list.
NpSumInt(l) == [v |-> SumSeq(l), float |-> FALSE]

\* np.sum of a list of frame counts: the empty list sums to the float 0.0.
NpSum(l) == IF l = <<>> THEN [v |-> 0, float |-> TRUE]
            ELSE [v |-> SumSeq(l), float |-> FALSE]

TotalFrames(dm) ==
    LET keys == KeySeq(DOMAIN dm)
    IN  NpSum([x \in 1..Len(keys) |-> dm[keys[x]].frames])

\* read_multi_deepmd: the merged collection as allocated, before the merge.
NewData(nframes) ==
    [nframe     |-> nframes,
     docname    |-> [g \in 0..(nframes - 1) |-> ""],
     atom_numbs |-> [g \in 0..(nframes - 1) |-> 0],
     has_virial |-> [g \in 0..(nframes - 1) |-> 0],
     energies   |-> [g \in 0..(nframes - 1) |-> 0],
     virials    |-> [g \in 0..(nframes - 1) |-> <<0, 0, 0, 0, 0, 0>>],
     cells      |-> [g \in 0..(nframes - 1) |-> <<0, 0, 0, 0, 0, 0, 0, 0, 0>>],
     volume     |-> [g \in 0..(nframes - 1) |-> 0],
     atom_types |-> <<>>,
     coords     |-> <<>>,
     forces     |-> <<>>]

\* The exception the body of the merge loop ends with for local frame jj of
\* the system record sd, or "none".
MergeError(sd, jj) ==
    IF sd.energies = None THEN "KeyError"
    ELSE IF jj >= Len(sd.energies[1]) THEN "IndexError"
    ELSE IF sd.forces = None THEN "KeyError"
    ELSE IF jj >= Len(sd.forces[1]) THEN "IndexError"
    ELSE "none"

\* The body of the merge loop: the merged collection d with local frame jj of
\* sd stored at global index g.
StoreFrame(d, g, sd, jj) ==
    LET hv == IF sd.has_virial[jj + 1] THEN 1 ELSE 0
        cell == Flatten(sd.cells[jj + 1])
    IN  [d EXCEPT
          !.atom_numbs[g] = Len(sd.atom_types),
          !.has_virial[g] = hv,
          !.energies[g] = sd.energies[1][jj + 1],
          !.virials[g] = IF hv # 0 THEN convervirial(sd.virials[1][jj + 1]) ELSE @,
          !.cells[g] = cell,
          !.volume[g] = vec2volume(cell),
          !.atom_types = (g :> sd.atom_types) @@ @,
          !.coords = (g :> sd.coords[jj + 1]) @@ @,
          !.forces = (g :> sd.forces[1][jj + 1]) @@ @,
          !.docname[g] = sd.docname]

\* A mutant of HeaderLine: the two floats are written without int().
HeaderLineNoInt(d, f) ==
    FloatStr(d.atom_numbs[f]) \o <<" ">> \o FloatStr(d.has_virial[f])

\* dump: the header block, the frame count and one line per frame.
HeaderLine(d, f) ==
    IntStr(d.atom_numbs[f]) \o <<" ">> \o IntStr(d.has_virial[f])

HeaderLines(d) ==
    <<IntStr(d.nframe)>> \o [x \in 1..d.nframe |-> HeaderLine(d, x - 1)]

\* dump: the exception building the record of frame f ends with, or "none".
DumpError(d, f) ==
    IF \E a \in 0..(d.atom_numbs[f] - 1) :
          a >= Len(d.coords[f]) \/ a >= Len(d.forces[f])
    THEN "IndexError" ELSE "none"

\* A mutant of EnergyLine: the virial is written whatever has_virial says.
EnergyLineAlwaysVirial(d, f) ==
    FloatStr(d.energies[f]) \o <<" ">> \o JoinFloats(d.virials[f])

\* dump: the energy line of frame f.
EnergyLine(d, f) ==
    IF d.has_virial[f] # 0
    THEN FloatStr(d.energies[f]) \o <<" ">> \o JoinFloats(d.virials[f])
    ELSE FloatStr(d.energies[f])

\* A mutant of TypeIndex: the stored index is written as it is.
TypeIndexZeroBased(t) == t

\* dump: the type index written is the stored one plus one.
TypeIndex(t) == t + 1

AtomLine(d, f, a) ==
    IntStr(TypeIndex(d.atom_types[f][a + 1])) \o <<" ">>
    \o JoinFloats(d.coords[f][a + 1]) \o <<" ">>
    \o JoinFloats(d.forces[f][a + 1])

\* dump: the record of frame f.
FrameLines(d, f) ==
    <<EnergyLine(d, f), JoinFloats(d.cells[f])>>
    \o [x \in 1..d.atom_numbs[f] |-> AtomLine(d, f, x - 1)]

-----------------------------------------------------------------------------
\* The run.  pc is the place the program is at:
\*   "listdir"     the loop over os.listdir(folder) in read_multi_deepmd
\*   "load_set"    the loop over the sets in to_system_data
\*   "merge"       the merge loops of read_multi_deepmd
\*   "dump_open", "dump_header", "dump_body"   dump
\*   "done", "aborted"                         the process has ended

NoSys ==
    [data |-> [atom_types |-> <<>>, atom_numbs |-> <<>>, atom_names |-> <<>>],
     k |-> 1, nframes |-> None, all_cells |-> <<>>, all_coords |-> <<>>,
     all_eners |-> <<>>, all_forces |-> <<>>, all_virs |-> <<>>]

NoData == NewData(0)

\* A mutant of FirstIndex: the counter starts at 0 and is still raised before
\* each store.
FirstIndexZero == -1 + 1

\* read_multi_deepmd: ifr = -1 before the merge loops.
FirstIndex == -1

Init ==
    /\ fs \in Inputs
    /\ nep = fs.nep
    /\ pc = "listdir"
    /\ err = "none"
    /\ i = 1
    /\ sys = NoSys
    /\ data_multi = <<>>
    /\ data = NoData
    /\ mi = 1
    /\ j = 0
    /\ ifr = FirstIndex
    /\ di = 0

\* A mutant of Raise: the exception is caught and main goes on to dump.
RaiseAndGoOn(e) ==
    /\ pc' = "dump_open"
    /\ err' = e

\* An uncaught exception ends the process.
Raise(e) ==
    /\ pc' = "aborted"
    /\ err' = e

\* read_multi_deepmd: an entry that is no directory is passed over.
SkipEntry ==
    /\ pc = "listdir"
    /\ i <= Len(fs.entries)
    /\ ~fs.entries[i].isdir
    /\ i' = i + 1
    /\ UNCHANGED <<fs, nep, pc, err, sys, data_multi, data, mi, j, ifr, di>>

\* to_system_data up to its loop: load_type and the empty lists.
LoadType ==
    /\ pc = "listdir"
    /\ i <= Len(fs.entries)
    /\ fs.entries[i].isdir
    /\ LET folder == fs.entries[i]
           e == LoadTypeError(folder, None)
       IN  IF e # "none"
           THEN /\ Raise(e)
                /\ UNCHANGED sys
           ELSE /\ sys' = [NoSys EXCEPT !.data = load_type(folder, None)]
                /\ pc' = "load_set"
                /\ UNCHANGED err
    /\ UNCHANGED <<fs, nep, i, data_multi, data, mi, j, ifr, di>>

\* to_system_data: one pass of the loop over the sets.
LoadSet ==
    /\ pc = "load_set"
    /\ sys.k <= Len(fs.entries[i].sets)
    /\ LET folder == fs.entries[i].sets[sys.k]
           e1 == LoadSetError(folder)
           e2 == ReshapeError(load_set(folder))
       IN  IF e1 # "none"
           THEN Raise(e1) /\ UNCHANGED sys
           ELSE IF e2 # "none"
           THEN Raise(e2) /\ UNCHANGED sys
           ELSE /\ sys' = AppendSet(sys, load_set(folder))
                /\ UNCHANGED <<pc, err>>
    /\ UNCHANGED <<fs, nep, i, data_multi, data, mi, j, ifr, di>>

\* to_system_data after its loop, and the rest of the pass of the loop in
\* read_multi_deepmd that called it.
FinishSystem ==
    /\ pc = "load_set"
    /\ sys.k > Len(fs.entries[i].sets)
    /\ LET e == SystemError(sys)
       IN  IF e # "none"
           THEN Raise(e) /\ UNCHANGED <<i, data_multi>>
           ELSE /\ data_multi' = ((i - 1) :> SystemData(sys, fs.entries[i])) @@ data_multi
                /\ i' = i + 1
                /\ pc' = "listdir"
                /\ UNCHANGED err
    /\ sys' = NoSys
    /\ UNCHANGED <<fs, nep, data, mi, j, ifr, di>>

\* read_multi_deepmd between its loops: the frame count and the allocation.
Allocate ==
    /\ pc = "listdir"
    /\ i > Len(fs.entries)
    /\ LET nframes == TotalFrames(data_multi)
       IN  IF nframes.float
           THEN Raise("TypeError") /\ UNCHANGED <<data, ifr>>
           ELSE /\ data' = NewData(nframes.v)
                /\ ifr' = FirstIndex
                /\ pc' = "merge"
                /\ UNCHANGED err
    /\ mi' = 1
    /\ j' = 0
    /\ UNCHANGED <<fs, nep, i, sys, data_multi, di>>

MergeKeys == KeySeq(DOMAIN data_multi)

\* read_multi_deepmd: one pass of the inner merge loop.
MergeFrame ==
    /\ pc = "merge"
    /\ mi <= Len(MergeKeys)
    /\ j < data_multi[MergeKeys[mi]].frames
    /\ LET sd == data_multi[MergeKeys[mi]]
           e == MergeError(sd, j)
       IN  IF e # "none"
           THEN Raise(e) /\ UNCHANGED <<data, j>>
           ELSE /\ data' = StoreFrame(data, ifr + 1, sd, j)
                /\ j' = j + 1
                /\ UNCHANGED <<pc, err>>
    /\ ifr' = ifr + 1
    /\ UNCHANGED <<fs, nep, i, sys, data_multi, mi, di>>

\* read_multi_deepmd: the inner loop is over, the outer one goes on.
MergeNextSystem ==
    /\ pc = "merge"
    /\ mi <= Len(MergeKeys)
    /\ j >= data_multi[MergeKeys[mi]].frames
    /\ mi' = mi + 1
    /\ j' = 0
    /\ UNCHANGED <<fs, nep, pc, err, i, sys, data_multi, data, ifr, di>>

\* read_multi_deepmd returns and main calls dump.
MergeReturn ==
    /\ pc = "merge"
    /\ mi > Len(MergeKeys)
    /\ pc' = "dump_open"
    /\ UNCHANGED <<fs, nep, err, i, sys, data_multi, data, mi, j, ifr, di>>

\* dump: os.makedirs(folder, exist_ok = True) and open(.., 'w').
DumpOpen ==
    /\ pc = "dump_open"
    /\ nep' = [exists |-> TRUE, file |-> Some(<<>>)]
    /\ pc' = "dump_header"
    /\ UNCHANGED <<fs, err, i, sys, data_multi, data, mi, j, ifr, di>>

\* dump: the header block is built and written.
DumpHeader ==
    /\ pc = "dump_header"
    /\ nep' = [nep EXCEPT !.file = Some(@[1] \o HeaderLines(data))]
    /\ pc' = "dump_body"
    /\ di' = 0
    /\ UNCHANGED <<fs, err, i, sys, data_multi, data, mi, j, ifr>>

\* dump: the record of one frame is built and written.
DumpFrame ==
    /\ pc = "dump_body"
    /\ di < data.nframe
    /\ LET e == DumpError(data, di)
       IN  IF e # "none"
           THEN Raise(e) /\ UNCHANGED <<nep, di>>
           ELSE /\ nep' = [nep EXCEPT !.file = Some(@[1] \o FrameLines(data, di))]
                /\ di' = di + 1
                /\ UNCHANGED <<pc, err>>
    /\ UNCHANGED <<fs, i, sys, data_multi, data, mi, j, ifr>>

\* dump: fout.close(), and the program ends.
DumpClose ==
    /\ pc = "dump_body"
    /\ di >= data.nframe
    /\ pc' = "done"
    /\ UNCHANGED <<fs, nep, err, i, sys, data_multi, data, mi, j, ifr, di>>

Next ==
    \/ SkipEntry
    \/ LoadType
    \/ LoadSet
    \/ FinishSystem
    \/ Allocate
    \/ MergeFrame
    \/ MergeNextSystem
    \/ MergeReturn
    \/ DumpOpen
    \/ DumpHeader
    \/ DumpFrame
    \/ DumpClose

Spec == Init /\ [][Next]_vars

-----------------------------------------------------------------------------
\* Reading train.in back, and the input tree seen from the claims.

\* line.split(' ')
RECURSIVE SplitFrom(_, _, _)
SplitFrom(line, x, cur) ==
    IF x > Len(line) THEN <<cur>>
    ELSE IF line[x] = " " THEN <<cur>> \o SplitFrom(line, x + 1, <<>>)
    ELSE SplitFrom(line, x + 1, Append(cur, line[x]))

Fields(line) == SplitFrom(line, 1, <<>>)

IsDigit(c) == \E d \in 1..10 : Digits[d] = c
DigitVal(c) == (CHOOSE d \in 1..10 : Digits[d] = c) - 1

IsNat(w) == w # <<>> /\ \A x \in 1..Len(w) : IsDigit(w[x])

RECURSIVE ParseNat(_)
ParseNat(w) == IF Len(w) = 1 THEN DigitVal(w[1])
               ELSE 10 * ParseNat(SubSeq(w, 1, Len(w) - 1)) + DigitVal(w[Len(w)])

\* A decimal number with a fraction part, as str() writes a float.
IsFloat(w) ==
    \E dot \in 2..(Len(w) - 1) :
       /\ w[dot] = "."
       /\ IsNat(SubSeq(w, dot + 1, Len(w)))
       /\ \/ IsNat(SubSeq(w, 1, dot - 1))
          \/ w[1] = "-" /\ IsNat(SubSeq(w, 2, dot - 1))

\* The frames of a set directory, from its box.npy.
BoxFrames(set) == Len(set.box[1]) \div 9

\* The frames of all the sets of a system directory.
AllFrames(entry) == SumSeq([k \in 1..Len(entry.sets) |-> BoxFrames(entry.sets[k])])

\* The frames of the sets of a system directory that hold virial data.
VirialFrames(entry) ==
    SumSeq([k \in 1..Len(entry.sets) |->
              IF entry.sets[k].virial = None THEN 0
              ELSE Len(entry.sets[k].virial[1]) \div 9])

\* The run has a merged collection: read_multi_deepmd passed its allocation.
Allocated == pc \in {"merge", "dump_open", "dump_header", "dump_body", "done"}

\* read_multi_deepmd has returned.
Merged == pc \in {"dump_open", "dump_header", "dump_body", "done"}

\* The run ended with an exception raised inside dump.
DumpAborted == pc = "aborted" /\ err = "IndexError" /\ mi > Len(MergeKeys)

\* The header block is in the file.
HeaderWritten == pc \in {"dump_body", "done"} \/ DumpAborted

\* The frames of the systems before the m-th one of data_multi.
Offset(m) == SumSeq([x \in 1..(m - 1) |-> data_multi[MergeKeys[x]].frames])

\* The system (as a position in MergeKeys) that global frame g comes from.
SystemOf(g) ==
    CHOOSE m \in 1..Len(MergeKeys) :
        Offset(m) <= g /\ g < Offset(m) + data_multi[MergeKeys[m]].frames

LocalOf(g) == g - Offset(SystemOf(g))

OriginEntry(g) == fs.entries[MergeKeys[SystemOf(g)] + 1]

-----------------------------------------------------------------------------
\* The claims.

\* C1: when every system directory has one or more sets, nframe of the
\* merged collection is the sum, over the system directories, of the frames
\* of all the sets of the system.
C1_NframeIsSumOfAllSets ==
    (Allocated /\ \A p \in 1..Len(fs.entries) :
                     fs.entries[p].isdir => Len(fs.entries[p].sets) >= 1)
    => data.nframe =
         SumSeq([p \in 1..Len(fs.entries) |->
                   IF fs.entries[p].isdir THEN AllFrames(fs.entries[p]) ELSE 0])

\* C2: the has_virial sequence of a system is all true when the virial
\* frames of all its sets number as many as the frames of all its sets, and
\* all false otherwise.
C2_HasVirialFromAllSets ==
    \A key \in DOMAIN data_multi :
       LET entry == fs.entries[key + 1]
           hv == data_multi[key].has_virial
       IN  \A x \in 1..Len(hv) :
              hv[x] = (VirialFrames(entry) = AllFrames(entry))

RECURSIVE CountOf(_, _)
CountOf(s, t) ==
    IF s = <<>> THEN 0
    ELSE (IF Head(s) = t THEN 1 ELSE 0) + CountOf(Tail(s), t)

TopologyOK(entry, topo) ==
    LET types == entry.type_raw[1]
    IN  /\ topo.atom_types = types
        /\ Len(topo.atom_numbs) = MaxOf(types) + 1
        /\ \A t \in 0..MaxOf(types) : topo.atom_numbs[t + 1] = CountOf(types, t)
        /\ SumSeq(topo.atom_numbs) = Len(types)

\* C9: load_type returns atom_numbs of length max(atom_types) + 1, with
\* atom_numbs[t] the number of atoms of type t, so that the counts add up to
\* the number of atoms.
C9_AtomNumbs ==
    /\ pc = "load_set" => TopologyOK(fs.entries[i], sys.data)
    /\ \A key \in DOMAIN data_multi :
          TopologyOK(fs.entries[key + 1], data_multi[key])

\* C9 witness: a system whose type.raw leaves a type index unused is loaded.
C9_Witness ==
    /\ pc = "load_set"
    /\ Len(sys.data.atom_types) = MaxAtoms
    /\ \E t \in 1..Len(sys.data.atom_numbs) : sys.data.atom_numbs[t] = 0

\* The frames stored so far are the local frames, in order, of the systems
\* in their order, and nothing else has been stored.
StoredInOrder ==
    /\ ifr < data.nframe
    /\ DOMAIN data.coords = 0..ifr
    /\ DOMAIN data.forces = 0..ifr
    /\ DOMAIN data.atom_types = 0..ifr
    /\ \A g \in 0..ifr :
          LET sd == data_multi[MergeKeys[SystemOf(g)]]
              jj == LocalOf(g)
          IN  /\ data.docname[g] = OriginEntry(g).name
              /\ data.coords[g] = sd.coords[jj + 1]
              /\ data.forces[g] = sd.forces[1][jj + 1]
              /\ data.energies[g] = sd.energies[1][jj + 1]
              /\ data.cells[g] = Flatten(sd.cells[jj + 1])
    /\ \A g \in (ifr + 1)..(data.nframe - 1) : data.docname[g] = ""

\* A step of the merge loop that stores a frame stores it at the index after
\* the last one and leaves every other index as it was.
StoresNextIndex ==
    (pc = "merge" /\ data' # data)
    => /\ ifr' = ifr + 1
       /\ data.docname[ifr'] = ""
       /\ \A g \in 0..(data.nframe - 1) :
             g # ifr' => /\ data'.docname[g] = data.docname[g]
                         /\ data'.energies[g] = data.energies[g]
                         /\ data'.cells[g] = data.cells[g]
       /\ \A g \in DOMAIN data.coords : data'.coords[g] = data.coords[g]

\* C3: the merge loop visits the systems in index order and their frames in
\* local order, and gives them the global indices 0, 1, 2, .. without gaps:
\* after the loop every index below nframe has been written exactly once,
\* none at or above nframe, and index g holds local frame j of system s,
\* where g is j plus the frame counts of the systems before s.
C3_GlobalIndexDense ==
    /\ [](/\ pc = "merge" => (ifr + 1 = Offset(mi) + j /\ StoredInOrder)
          /\ Merged => (ifr = data.nframe - 1 /\ StoredInOrder))
    /\ [][StoresNextIndex]_vars

\* C3 witness: two systems, the second behind a first of two sets, merged.
C3_Witness ==
    /\ pc = "done"
    /\ Len(MergeKeys) = 2
    /\ Len(fs.entries[1].sets) = 2
    /\ data_multi[1].frames >= 2

\* The six components of a flat 3x3 matrix in the order xx yy zz xy yz zx.
Voigt(m) == <<m[1], m[5], m[9], m[2], m[6], m[3]>>

\* The set and the frame in it that local frame jj (counted over all the
\* sets) of a system directory is.
RECURSIVE SetOf(_, _, _)
SetOf(entry, k, jj) ==
    IF jj < BoxFrames(entry.sets[k]) THEN <<k, jj>>
    ELSE SetOf(entry, k + 1, jj - BoxFrames(entry.sets[k]))

\* The flat cell, row after row, of the frame of the input tree that global
\* frame g is.
SourceBox(g) ==
    LET at == SetOf(OriginEntry(g), 1, LocalOf(g))
    IN  SubSeq(OriginEntry(g).sets[at[1]].box[1], 9 * at[2] + 1, 9 * at[2] + 9)

\* C4: a frame of the merged collection flagged has_virial holds the six
\* components xx yy zz xy yz zx (upper triangle) of its own source virial
\* matrix, and a frame not flagged holds six zeros.
C4_VirialOfOwnFrame ==
    Merged =>
      \A g \in 0..(data.nframe - 1) :
         LET entry == OriginEntry(g)
             at == SetOf(entry, 1, LocalOf(g))
             set == entry.sets[at[1]]
         IN  IF data.has_virial[g] # 0
             THEN /\ set.virial # None
                  /\ Len(set.virial[1]) = 9 * BoxFrames(set)
                  /\ data.virials[g] =
                       Voigt(SubSeq(set.virial[1], 9 * at[2] + 1, 9 * at[2] + 9))
             ELSE data.virials[g] = <<0, 0, 0, 0, 0, 0>>

\* The lines of train.in.
FileLines == nep.file[1]

\* C5: train.in starts with the line of the frame count F and then F lines
\* "<atom count> <has_virial as 0 or 1>" in frame order, all written before
\* any record of the body; reading them back gives the pairs of the merged
\* collection.
C5_HeaderRoundTrip ==
    /\ pc = "dump_header" => nep.file = Some(<<>>)
    /\ HeaderWritten =>
         /\ nep.file # None
         /\ Len(FileLines) >= 1 + data.nframe
         /\ (di = 0 => Len(FileLines) = 1 + data.nframe)
         /\ IsNat(FileLines[1])
         /\ ParseNat(FileLines[1]) = data.nframe
         /\ \A g \in 0..(data.nframe - 1) :
               LET w == Fields(FileLines[g + 2])
               IN  /\ Len(w) = 2
                   /\ IsNat(w[1])
                   /\ w[2] \in {<<"0">>, <<"1">>}
                   /\ ParseNat(w[1]) = data.atom_numbs[g]
                   /\ ParseNat(w[1]) = Len(OriginEntry(g).type_raw[1])
                   /\ ParseNat(w[2]) = data.has_virial[g]

\* C5 witness: the header of frames that differ in both fields is written.
C5_Witness ==
    /\ pc = "done"
    /\ \E g, h \in 0..(data.nframe - 1) :
          /\ data.atom_numbs[g] # data.atom_numbs[h]
          /\ data.has_virial[g] # data.has_virial[h]

NoSystems == \A p \in 1..Len(fs.entries) : ~fs.entries[p].isdir

\* C6: with no system directory in the parent directory the run ends in an
\* error and leaves ./nep as it was; and no run ends well with a file whose
\* frame count is 0.
C6_NoSystemsNoOutput ==
    /\ NoSystems => /\ pc \in {"listdir", "aborted"}
                    /\ nep = fs.nep
                    /\ pc = "listdir" => ENABLED Next
    /\ pc = "done" => /\ nep.file # None
                      /\ IsNat(FileLines[1])
                      /\ ParseNat(FileLines[1]) >= 1

\* C6 witness: a parent directory of plain files only, the run aborted.
C6_Witness ==
    /\ NoSystems
    /\ Len(fs.entries) >= 1
    /\ fs.nep.file # None
    /\ pc = "aborted"

\* The atom count and the flag the header gives for frame g.
HeaderAtoms(g) == ParseNat(Fields(FileLines[g + 2])[1])
HeaderFlag(g) == ParseNat(Fields(FileLines[g + 2])[2])

\* The number of lines before the record of frame g.
RecordStart(g) ==
    1 + data.nframe + SumSeq([x \in 1..g |-> 2 + HeaderAtoms(x - 1)])

AllFloats(w) == \A x \in 1..Len(w) : IsFloat(w[x])

\* C7: the records of the body come in frame order; the record of frame g
\* is an energy line of 7 fields when the header flags has_virial and of 1
\* field when not, a cell line of the 9 fields of the cell row after row,
\* and one line of 7 fields for each of the atoms the header counts.
C7_BodyRecords ==
    HeaderWritten =>
      /\ Len(FileLines) = RecordStart(di)
      /\ pc = "done" => di = data.nframe
      /\ \A g \in 0..(di - 1) :
            LET at == RecordStart(g)
                energy == Fields(FileLines[at + 1])
            IN  /\ Len(energy) = (IF HeaderFlag(g) = 1 THEN 7 ELSE 1)
                /\ AllFloats(energy)
                /\ energy[1] = FloatStr(data.energies[g])
                /\ Len(Fields(FileLines[at + 2])) = 9
                /\ AllFloats(Fields(FileLines[at + 2]))
                /\ FileLines[at + 2] = JoinFloats(SourceBox(g))
                /\ \A a \in 1..HeaderAtoms(g) :
                      LET w == Fields(FileLines[at + 2 + a])
                      IN  /\ Len(w) = 7
                          /\ IsNat(w[1])
                          /\ AllFloats(Tail(w))

\* C7 witness: a body with a record of either shape is complete.
C7_Witness ==
    /\ pc = "done"
    /\ \E g, h \in 0..(data.nframe - 1) :
          data.has_virial[g] = 1 /\ data.has_virial[h] = 0

\* C8: the type index on the line of atom a of frame g is one more than the
\* value type.raw of the frame's system gives for atom a.
C8_TypeIndexOneBased ==
    HeaderWritten =>
      \A g \in 0..(di - 1) :
         \A a \in 1..HeaderAtoms(g) :
            LET w == Fields(FileLines[RecordStart(g) + 2 + a])
            IN  /\ IsNat(w[1])
                /\ ParseNat(w[1]) = OriginEntry(g).type_raw[1][a] + 1

\* C8 witness: atoms of different types of a second system are written.
C8_Witness ==
    /\ pc = "done"
    /\ \E g \in 0..(data.nframe - 1) :
          /\ SystemOf(g) = 2
          /\ \E a, b \in 1..Len(data.atom_types[g]) :
                data.atom_types[g][a] # data.atom_types[g][b]

\* A set directory that cannot be loaded: box.npy or coord.npy is missing,
\* or an array has a size its reshape refuses.
BrokenSet(set) ==
    \/ set.box = None
    \/ set.coord = None
    \/ Len(set.box[1]) % 9 # 0
    \/ Len(set.box[1]) = 0
    \/ Len(set.coord[1]) % (3 * BoxFrames(set)) # 0
    \/ set.energy # None /\ Len(set.energy[1]) # BoxFrames(set)
    \/ set.force # None /\ Len(set.force[1]) % (3 * BoxFrames(set)) # 0
    \/ set.virial # None /\ Len(set.virial[1]) \notin {0, 9 * BoxFrames(set)}

\* A system directory the claim lists as failing.
BrokenSystem(entry) ==
    \/ entry.type_raw = None
    \/ \E k \in 1..Len(entry.sets) : BrokenSet(entry.sets[k])
    \/ /\ entry.type_raw # None
       /\ entry.type_raw[1] # <<>>
       /\ entry.type_map # None
       /\ Len(entry.type_map[1]) < MaxOf(entry.type_raw[1]) + 1
    \/ \A k \in 1..Len(entry.sets) :
          entry.sets[k].energy = None \/ Len(entry.sets[k].energy[1]) = 0
    \/ \A k \in 1..Len(entry.sets) :
          entry.sets[k].force = None \/ Len(entry.sets[k].force[1]) = 0

\* C10: nothing is written before the merge has succeeded: while the run
\* reads and merges, and when it has aborted there, ./nep is as it was
\* before the run; and a run over a tree with a system that cannot be loaded
\* or merged never gets to dump.
C10_NoOutputOnFailure ==
    /\ (pc \in {"listdir", "load_set", "merge", "dump_open"}
        \/ (pc = "aborted" /\ ~DumpAborted)) => nep = fs.nep
    /\ (\E p \in 1..Len(fs.entries) :
           fs.entries[p].isdir /\ BrokenSystem(fs.entries[p]))
       => /\ ~Merged
          /\ ~DumpAborted
          /\ pc # "aborted" => ENABLED Next

\* C10 witness: the merge loop aborted on a system without energies, and the
\* train.in of an earlier run is still there.
C10_Witness ==
    /\ pc = "aborted"
    /\ err = "KeyError"
    /\ fs.nep.file = Some(OldFile)
    /\ nep = fs.nep

====
